---- MODULE Spec2Model ----
(***************************************************************************)
(* Balloon delivery tracking (qatadaazzeh/BalloonClient).                  *)
(*                                                                         *)
(* The parts of the client that are modelled:                              *)
(*   - the hook useDeliveryProcessing, whose processDeliveries turns a     *)
(*     contest snapshot and the set of delivered keys into the list of     *)
(*     delivery records (SpecDerive);                                      *)
(*   - the Index page, which keeps the delivered set, the list derived     *)
(*     from the newest event and the markAsDelivered mutation (Spec);      *)
(*   - the partition effect of the Index page (SpecPartition);             *)
(*   - connect, disconnect and pollApi of ContestConnectionProvider, with  *)
(*     the timers and the fetches they leave behind (SpecConn).            *)
(*                                                                         *)
(* Strings the code inspects character by character (submission ids,       *)
(* template-literal keys) are sequences of one-character strings.          *)
(***************************************************************************)
EXTENDS Integers, Sequences, FiniteSets, Bags, TLC

VARIABLES
    contestData,        \* hook prop: the snapshot handed to useDeliveryProcessing
    hookDelivered,      \* hook prop: deliveredBalloons handed to the hook
    deliveries,         \* hook result: useMemo(processDeliveries)
    memo,               \* "stale" before the memo has been computed, "fresh" after
    events,             \* ContestConnectionProvider: events, newest first
    deliveredBalloons,  \* Index: useState<Set<string>>
    allDeliveries,      \* Index: useState<BalloonDelivery[]>
    pendingDeliveries,  \* Index: useState<BalloonDelivery[]>
    recentDeliveries,   \* Index: useState<BalloonDelivery[]>
    localStorage,       \* localStorage["deliveredBalloons"], as the set it encodes
    lastContestDataRef, \* ContestConnectionProvider: hash of the last contest event
    effects,            \* TRUE while a committed render still has passive effects to run
    markedPairs,        \* history: the (team, problem) pairs of the pending records
                        \* markAsDelivered has marked
    pageError,          \* "none", or the error an effect of the Index page threw
    printRequests,      \* ids of the records printBalloonDelivery was called with
    justMarked,         \* history: the delivery ids of the last markAsDelivered call
                        \* that found its record, until an event arrives or the
                        \* page restarts
    restartedFrom,      \* history: <<S>> when the page restarted from the persisted
                        \* set S and nothing was marked since, <<>> otherwise
    missed,             \* history: TRUE when the last step was a markAsDelivered
                        \* call that found no record of its id
    printing,           \* the print requests awaiting the answer of the print server
    printFailed,        \* history: the print requests that failed since the page loaded
    beforeError,        \* history: <<L>> when the last event received is that of a
                        \* failed poll and L are the three lists of the page when
                        \* it arrived, <<>> otherwise
    connectionStatus,   \* ContestConnectionProvider: connectionStatus.status
    autoReconnect,      \* ContestConnectionProvider: useState(true)
    pollingIntervalRef, \* "null", or "id" when the ref holds the id of an interval
    reconnectTimeoutRef,\* "null", or "id" when the ref holds the id of a timeout
    reconnectAttempts,  \* reconnectAttempts.current
    wasConnected,       \* localStorage["balloonWasConnected"]
    mounted,            \* FALSE once the provider has unmounted
    timers,             \* bag of the timers of the event loop that are still to fire
    fetches,            \* bag of the pollApi calls awaiting their fetch
    fetchCount,         \* number of pollApi calls so far
    autoConnects,       \* history: connect() calls made by reconnect timers since
                        \* the last connect() that was not
    stopped,            \* history: TRUE when disconnect() has run, at a call of the
                        \* page or at unmount, and connect() has not run since
    succeeded           \* history: TRUE when a fetch has succeeded since the last
                        \* connect() that no reconnect timer made

hookVars == <<contestData, hookDelivered, deliveries, memo>>
pageVars == <<events, lastContestDataRef, deliveredBalloons, allDeliveries, pendingDeliveries,
              recentDeliveries, localStorage, effects, markedPairs, pageError,
              printRequests, justMarked, restartedFrom, missed, beforeError,
              printing, printFailed>>
connVars == <<connectionStatus, autoReconnect, pollingIntervalRef, reconnectTimeoutRef,
              reconnectAttempts, wasConnected, mounted, timers, fetches, fetchCount,
              autoConnects, stopped, succeeded>>
vars == <<contestData, hookDelivered, deliveries, memo, events, lastContestDataRef,
          deliveredBalloons,
          allDeliveries, pendingDeliveries, recentDeliveries, localStorage,
          effects, markedPairs, pageError, printRequests, justMarked, restartedFrom,
          missed, beforeError, printing, printFailed, connectionStatus, autoReconnect, pollingIntervalRef,
          reconnectTimeoutRef, reconnectAttempts, wasConnected, mounted, timers,
          fetches, fetchCount, autoConnects, stopped, succeeded>>

----------------------------------------------------------------------------
(* Bounds of the model *)

\* longest submissions array of a snapshot handed to the hook
MaxSubs == 3

----------------------------------------------------------------------------
(* JavaScript string primitives used by the code *)

Undefined == "undefined"

DigitChars == <<"0", "1", "2", "3", "4", "5", "6", "7", "8", "9">>

\* the value of each decimal digit
DigitTable ==
    [c \in {DigitChars[i] : i \in 1..Len(DigitChars)} |->
        (CHOOSE i \in 1..Len(DigitChars) : DigitChars[i] = c) - 1]

IsDigit(c) == c \in DOMAIN DigitTable

DigitValue(c) == DigitTable[c]

\* collation order of the characters that occur in ids: digits before letters
CollationOrder == DigitChars \o <<"a", "b">>

RankTable ==
    [c \in {CollationOrder[i] : i \in 1..Len(CollationOrder)} |->
        CHOOSE i \in 1..Len(CollationOrder) : CollationOrder[i] = c]

CharRank(c) == RankTable[c]

\* parseInt yields NaN when the string does not start with a digit; the ids of
\* the model carry no sign or blank, so every parsed number is >= 0
NaN == -1

isNaN(n) == n = NaN

RECURSIVE ParseDigits(_, _)
ParseDigits(s, acc) ==
    IF s = <<>> \/ ~IsDigit(Head(s))
    THEN acc
    ELSE ParseDigits(Tail(s), 10 * acc + DigitValue(Head(s)))

\* parseInt(string): the longest prefix of decimal digits, NaN if there is none
parseInt(s) ==
    IF s = <<>> \/ ~IsDigit(Head(s)) THEN NaN ELSE ParseDigits(s, 0)

RECURSIVE localeCompare(_, _)
localeCompare(a, b) ==
    IF a = <<>> /\ b = <<>> THEN 0
    ELSE IF a = <<>> THEN -1
    ELSE IF b = <<>> THEN 1
    ELSE IF CharRank(Head(a)) < CharRank(Head(b)) THEN -1
    ELSE IF CharRank(Head(a)) > CharRank(Head(b)) THEN 1
    ELSE localeCompare(Tail(a), Tail(b))

Last(s) == s[Len(s)]

Front(s) == SubSeq(s, 1, Len(s) - 1)

----------------------------------------------------------------------------
(* useDeliveryProcessing.processDeliveries *)

\* new Map(teams.map(t => [t.id, t])): the last entry of an id wins
teamMap(teams) ==
    [id \in {teams[i].id : i \in DOMAIN teams} |->
        teams[CHOOSE i \in DOMAIN teams :
                /\ teams[i].id = id
                /\ \A k \in DOMAIN teams : teams[k].id = id => k <= i]]

\* new Map(problems.map(p => [p.id, p]))
problemMap(problems) ==
    [id \in {problems[i].id : i \in DOMAIN problems} |->
        problems[CHOOSE i \in DOMAIN problems :
                /\ problems[i].id = id
                /\ \A k \in DOMAIN problems : problems[k].id = id => k <= i]]

\* a map that keeps the first judgement of a submission
judgementsBySubmission_firstWins(judgements) ==
    [sid \in {judgements[i].submission_id : i \in DOMAIN judgements} |->
        judgements[CHOOSE i \in DOMAIN judgements :
                /\ judgements[i].submission_id = sid
                /\ \A k \in DOMAIN judgements :
                        judgements[k].submission_id = sid => k >= i]]

\* judgements.forEach(j => map.set(j.submission_id, j)): the last judgement of a
\* submission overwrites the earlier ones
judgementsBySubmission(judgements) ==
    [sid \in {judgements[i].submission_id : i \in DOMAIN judgements} |->
        judgements[CHOOSE i \in DOMAIN judgements :
                /\ judgements[i].submission_id = sid
                /\ \A k \in DOMAIN judgements :
                        judgements[k].submission_id = sid => k <= i]]

\* a comparator that never parses the ids
compareSubmissions_lexicographic(a, b) == localeCompare(a.id, b.id)

\* the comparator handed to [...submissions].sort
compareSubmissions(a, b) ==
    LET numA == parseInt(a.id)
        numB == parseInt(b.id)
    IN  IF ~isNaN(numA) /\ ~isNaN(numB)
        THEN numA - numB
        ELSE localeCompare(a.id, b.id)

\* Array.prototype.sort is stable: an element goes in front of the first element
\* that compares greater, behind every element that compares equal
RECURSIVE insertSorted(_, _)
insertSorted(sorted, x) ==
    IF sorted = <<>> THEN <<x>>
    ELSE IF compareSubmissions(Head(sorted), x) > 0 THEN <<x>> \o sorted
    ELSE <<Head(sorted)>> \o insertSorted(Tail(sorted), x)

RECURSIVE sortedSubmissions(_)
sortedSubmissions(submissions) ==
    IF submissions = <<>> THEN <<>>
    ELSE insertSorted(sortedSubmissions(Front(submissions)), Last(submissions))

\* judgement && judgement.judgement_type_id === "AC"
isAccepted(jMap, submission) ==
    /\ submission.id \in DOMAIN jMap
    /\ jMap[submission.id].judgement_type_id = "AC"

\* `${submission.team_id}-${submission.problem_id}`
teamProblemKey(submission) == submission.team_id \o <<"-">> \o submission.problem_id

\* a key with the problem in front of the team
deliveryKey_problemFirst(submission) == submission.problem_id \o <<"-">> \o submission.team_id

\* `${submission.team_id}-${submission.problem_id}`, looked up in deliveredBalloons
deliveryKey(submission) == submission.team_id \o <<"-">> \o submission.problem_id

isAlreadyDelivered(submission, delivered) == deliveryKey(submission) \in delivered

\* a first-solve flag that looks at the team instead of the problem
isFirstSolve_byTeam(emitted, submission) ==
    \A i \in DOMAIN emitted : emitted[i].teamId # submission.team_id

\* deliveries.filter(d => d.problemId === submission.problem_id).length === 0
isFirstSolve(emitted, submission) ==
    \A i \in DOMAIN emitted : emitted[i].problemId # submission.problem_id

\* a first-team-solve flag that looks at the problem instead of the team
isFirstTeamSolve_byProblem(emitted, submission) ==
    \A i \in DOMAIN emitted : emitted[i].problemId # submission.problem_id

\* deliveries.filter(d => d.teamId === submission.team_id).length === 0
isFirstTeamSolve(emitted, submission) ==
    \A i \in DOMAIN emitted : emitted[i].teamId # submission.team_id

\* a first-AC flag that is still set for the second record
isFirstACInContest_offByOne(emitted) == Len(emitted) <= 1

\* deliveries.length === 0
isFirstACInContest(emitted) == Len(emitted) = 0

\* [..].filter(Boolean).join(" "): the joined string as the sequence of its segments
notes(firstAC, firstSolve, firstTeamSolve) ==
    SelectSeq(<<IF firstAC THEN "First AC in contest!" ELSE "",
                IF firstSolve THEN "FIRST SOLVE of this problem!" ELSE "",
                IF firstTeamSolve THEN "" ELSE "">>,
              LAMBDA seg : seg # "")

\* `delivery-${submission.id}`
hookDeliveryId(submission) == <<"delivery-">> \o submission.id

\* the BalloonDelivery literal pushed for a submission
delivery(submission, problem, emitted, delivered) ==
    [id                 |-> hookDeliveryId(submission),
     teamId             |-> submission.team_id,
     problemId          |-> submission.problem_id,
     problemLetter      |-> problem.id,
     submissionId       |-> submission.id,
     requestedAt        |-> submission.time,
     status             |-> IF isAlreadyDelivered(submission, delivered)
                            THEN "delivered" ELSE "pending",
     deliveredAt        |-> IF isAlreadyDelivered(submission, delivered)
                            THEN submission.time ELSE Undefined,
     notes              |-> notes(isFirstACInContest(emitted),
                                  isFirstSolve(emitted, submission),
                                  isFirstTeamSolve(emitted, submission)),
     isFirstSolve       |-> isFirstSolve(emitted, submission),
     isFirstTeamSolve   |-> isFirstTeamSolve(emitted, submission),
     isFirstACInContest |-> isFirstACInContest(emitted)]

\* a check that forgets the team
teamAndProblemKnown_problemOnly(submission, tMap, pMap) ==
    submission.problem_id \in DOMAIN pMap

\* team && problem
teamAndProblemKnown(submission, tMap, pMap) ==
    /\ submission.team_id \in DOMAIN tMap
    /\ submission.problem_id \in DOMAIN pMap

\* a check that lets every submission through
notYetProcessed_always(processedTeamProblems, submission) == TRUE

\* !processedTeamProblems.has(teamProblemKey)
notYetProcessed(processedTeamProblems, submission) ==
    teamProblemKey(submission) \notin processedTeamProblems

\* a loop body in which a later accepted submission of a pair replaces the record
\* of the earlier one
forEachBody_lastWins(acc, submission, tMap, pMap, jMap, delivered) ==
    IF /\ isAccepted(jMap, submission)
       /\ teamAndProblemKnown(submission, tMap, pMap)
    THEN LET kept == SelectSeq(acc.deliveries,
                               LAMBDA d : ~(/\ d.teamId = submission.team_id
                                            /\ d.problemId = submission.problem_id))
         IN  [deliveries |->
                 Append(kept, delivery(submission, pMap[submission.problem_id],
                                       kept, delivered)),
              processedTeamProblems |->
                 acc.processedTeamProblems \cup {teamProblemKey(submission)}]
    ELSE acc

\* the body of sortedSubmissions.forEach: acc holds deliveries and
\* processedTeamProblems
forEachBody(acc, submission, tMap, pMap, jMap, delivered) ==
    IF /\ isAccepted(jMap, submission)
       /\ teamAndProblemKnown(submission, tMap, pMap)
       /\ notYetProcessed(acc.processedTeamProblems, submission)
    THEN [deliveries |->
             Append(acc.deliveries,
                    delivery(submission, pMap[submission.problem_id],
                             acc.deliveries, delivered)),
          processedTeamProblems |->
             acc.processedTeamProblems \cup {teamProblemKey(submission)}]
    ELSE acc

RECURSIVE forEachSubmission(_, _, _, _, _, _)
forEachSubmission(sorted, acc, tMap, pMap, jMap, delivered) ==
    IF sorted = <<>> THEN acc
    ELSE forEachSubmission(Tail(sorted),
                           forEachBody(acc, Head(sorted), tMap, pMap, jMap, delivered),
                           tMap, pMap, jMap, delivered)

\* a snapshot that is null
Null == [isNull |-> TRUE]

\* submissions && teams && problems && judgements: a missing collection is a
\* field the snapshot record does not have
hasCollections(data) ==
    {"submissions", "teams", "problems", "judgements"} \subseteq DOMAIN data

processDeliveries(data, delivered) ==
    IF data = Null THEN <<>>
    ELSE IF ~hasCollections(data) THEN <<>>
    ELSE forEachSubmission(sortedSubmissions(data.submissions),
                           [deliveries |-> <<>>, processedTeamProblems |-> {}],
                           teamMap(data.teams), problemMap(data.problems),
                           judgementsBySubmission(data.judgements),
                           delivered).deliveries

----------------------------------------------------------------------------
(* The inputs: the contest's submissions, teams and problems *)

TeamA == [id |-> <<"A">>, name |-> "Team A"]
TeamB == [id |-> <<"B">>, name |-> "Team B"]
ProblemX == [id |-> <<"X">>, name |-> "Problem X"]
ProblemY == [id |-> <<"Y">>, name |-> "Problem Y"]

\* The submissions of the contest. Ids "2" and "10" order differently as numbers
\* and as strings, "2" and "02" parse to the same number, "a" does not parse.
\* Submissions "1" and "10" are of the same team and problem.
SubmissionPool ==
    << [id |-> <<"1">>,      team_id |-> <<"B">>, problem_id |-> <<"X">>, time |-> "T1"],
       [id |-> <<"2">>,      team_id |-> <<"A">>, problem_id |-> <<"X">>, time |-> "T2"],
       [id |-> <<"1", "0">>, team_id |-> <<"B">>, problem_id |-> <<"X">>, time |-> "T1"],
       [id |-> <<"0", "2">>, team_id |-> <<"A">>, problem_id |-> <<"Y">>, time |-> "T3"],
       [id |-> <<"a">>,      team_id |-> <<"B">>, problem_id |-> <<"Y">>, time |-> "T2"] >>

\* what the contest system says about a submission: accepted, rejected, not judged
Verdicts == {"AC", "WA", "none"}

\* the teams and problems of a snapshot: all of them, or team B and problem Y
\* unknown (the submissions of B dangle by their team, those for Y by their
\* problem)
Rosters ==
    { [teams |-> <<TeamA, TeamB>>, problems |-> <<ProblemX, ProblemY>>],
      [teams |-> <<TeamA>>,        problems |-> <<ProblemX>>] }

\* the submissions arrays: up to n submissions of the pool, in any order
Arrangements(n) ==
    {a \in UNION {[1..k -> 1..Len(SubmissionPool)] : k \in 0..n} :
        \A i, j \in DOMAIN a : i # j => a[i] # a[j]}

\* one judgement per judged submission, in the order of the submissions array
JudgementsOf(submissions, verdict) ==
    SelectSeq([i \in DOMAIN submissions |->
                  [id               |-> <<"j">> \o submissions[i].id,
                   submission_id    |-> submissions[i].id,
                   judgement_type_id |-> verdict[i]]],
              LAMBDA j : j.judgement_type_id # "none")

Snapshot(a, verdict, roster) ==
    LET submissions == [i \in DOMAIN a |-> SubmissionPool[a[i]]]
    IN  [submissions |-> submissions,
         teams       |-> roster.teams,
         problems    |-> roster.problems,
         judgements  |-> JudgementsOf(submissions, verdict)]

Key(team, problem) == team.id \o <<"-">> \o problem.id

AllKeys == {Key(t, p) : t \in {TeamA, TeamB}, p \in {ProblemX, ProblemY}}

\* the delivered sets handed to the hook: no pair, one pair, all pairs delivered
DeliveredSets == {{}, {Key(TeamB, ProblemX)}, AllKeys}

EmptySnapshot == Snapshot(<<>>, <<>>, [teams |-> <<>>, problems |-> <<>>])

\* a snapshot of two accepted submissions with all four collections
FullSnapshot ==
    Snapshot(<<2, 1>>, <<"AC", "AC">>,
             [teams |-> <<TeamA, TeamB>>, problems |-> <<ProblemX, ProblemY>>])

\* the snapshot without one of its fields
Without(data, field) == [f \in DOMAIN data \ {field} |-> data[f]]

\* the snapshots the hook must answer with the empty list: null, and the full
\* snapshot with one collection missing
MalformedSnapshots ==
    {Null} \cup {Without(FullSnapshot, field) :
                    field \in {"submissions", "teams", "problems", "judgements"}}

----------------------------------------------------------------------------
(* The hook: the memo of processDeliveries over its two props *)

\* useMemo(() => processDeliveries(), [processDeliveries])
useMemoDeliveries ==
    /\ memo = "stale"
    /\ deliveries' = processDeliveries(contestData, hookDelivered)
    /\ memo' = "fresh"
    /\ UNCHANGED <<contestData, hookDelivered>>
    /\ UNCHANGED pageVars
    /\ UNCHANGED connVars

\* the provider as its useState and useRef calls leave it, nothing stored
ProviderIdle ==
    /\ connectionStatus = "disconnected"
    /\ autoReconnect = TRUE
    /\ pollingIntervalRef = "null"
    /\ reconnectTimeoutRef = "null"
    /\ reconnectAttempts = 0
    /\ mounted = TRUE
    /\ timers = EmptyBag
    /\ fetches = EmptyBag
    /\ fetchCount = 0
    /\ autoConnects = 0
    /\ stopped = FALSE
    /\ succeeded = FALSE

PageIdle ==
    /\ events = <<>>
    /\ lastContestDataRef = <<>>
    /\ deliveredBalloons = {}
    /\ allDeliveries = <<>>
    /\ pendingDeliveries = <<>>
    /\ recentDeliveries = <<>>
    /\ localStorage = {}
    /\ effects = FALSE
    /\ markedPairs = {}
    /\ pageError = "none"
    /\ printRequests = {}
    /\ justMarked = {}
    /\ restartedFrom = <<>>
    /\ missed = FALSE
    /\ beforeError = <<>>
    /\ printing = {}
    /\ printFailed = {}

PageInit ==
    /\ PageIdle
    /\ ProviderIdle
    /\ wasConnected = "false"

InitDerive ==
    /\ \/ \E a \in Arrangements(MaxSubs) :
             \E verdict \in [DOMAIN a -> Verdicts] :
                 \E roster \in Rosters :
                     contestData = Snapshot(a, verdict, roster)
       \/ contestData \in MalformedSnapshots
    /\ hookDelivered \in DeliveredSets
    /\ deliveries = <<>>
    /\ memo = "stale"
    /\ PageInit

NextDerive == useMemoDeliveries

SpecDerive == InitDerive /\ [][NextDerive]_vars

----------------------------------------------------------------------------
(* The Index page: derivation effect, partition effect, markAsDelivered *)

\* most recent deliveries shown: .slice(0, 10)
RecentLimit == 10

\* longest events list the model follows
MaxEvents == 2

\* getDate: DateTime.fromISO(time).toMillis()
getDate(time) ==
    CASE time = "T1" -> 1000
      [] time = "T2" -> 2000
      [] time = "T3" -> 3000

\* [...submissions].sort((a, b) => getDate(a.time) - getDate(b.time)), stable
RECURSIVE insertByTime(_, _)
insertByTime(sorted, x) ==
    IF sorted = <<>> THEN <<x>>
    ELSE IF getDate(Head(sorted).time) - getDate(x.time) > 0 THEN <<x>> \o sorted
    ELSE <<Head(sorted)>> \o insertByTime(Tail(sorted), x)

RECURSIVE sortedByTime(_)
sortedByTime(submissions) ==
    IF submissions = <<>> THEN <<>>
    ELSE insertByTime(sortedByTime(Front(submissions)), Last(submissions))

\* acceptedSubmissions.set(submissionId, submission): a known key keeps its
\* place in the iteration order and takes the new value
mapSet(entries, submission) ==
    IF \E i \in DOMAIN entries : entries[i].id = submission.id
    THEN [i \in DOMAIN entries |->
             IF entries[i].id = submission.id THEN submission ELSE entries[i]]
    ELSE Append(entries, submission)

\* the body of the first forEach of the derivation effect: acc holds
\* acceptedSubmissions, firstSolves, firstTeamSolve and firstACInContest
\* (<<>> for null)
collectBody(acc, submission, jMap) ==
    IF isAccepted(jMap, submission)
    THEN [acceptedSubmissions |-> mapSet(acc.acceptedSubmissions, submission),
          firstACInContest |->
              IF acc.firstACInContest = <<>> THEN <<submission>>
              ELSE acc.firstACInContest,
          firstSolves |->
              IF submission.problem_id \in DOMAIN acc.firstSolves THEN acc.firstSolves
              ELSE [q \in DOMAIN acc.firstSolves \cup {submission.problem_id} |->
                       IF q = submission.problem_id THEN submission.team_id
                       ELSE acc.firstSolves[q]],
          firstTeamSolve |->
              IF submission.team_id \in DOMAIN acc.firstTeamSolve THEN acc.firstTeamSolve
              ELSE [t \in DOMAIN acc.firstTeamSolve \cup {submission.team_id} |->
                       IF t = submission.team_id THEN submission.problem_id
                       ELSE acc.firstTeamSolve[t]]]
    ELSE acc

RECURSIVE collectAccepted(_, _, _)
collectAccepted(sorted, acc, jMap) ==
    IF sorted = <<>> THEN acc
    ELSE collectAccepted(Tail(sorted), collectBody(acc, Head(sorted), jMap), jMap)

RECURSIVE decimal(_)
decimal(n) ==
    IF n < 10 THEN <<DigitChars[n + 1]>>
    ELSE decimal(n \div 10) \o <<DigitChars[(n % 10) + 1]>>

\* `delivery-${deliveryIdCounter++}`
counterId(n) == <<"delivery-">> \o decimal(n)

\* deliveredBalloons.has(`${submission.team_id}-${submission.problem_id}`)
pageAlreadyDelivered(submission, delivered) ==
    (submission.team_id \o <<"-">> \o submission.problem_id) \in delivered

\* the BalloonDelivery literal of the derivation effect
pageDelivery(submission, collected, counter, delivered) ==
    LET firstSolve == collected.firstSolves[submission.problem_id] = submission.team_id
        firstTeam  == collected.firstTeamSolve[submission.team_id] = submission.problem_id
        firstAC    == /\ collected.firstACInContest # <<>>
                      /\ collected.firstACInContest[1].id = submission.id
    IN  [id                 |-> counterId(counter),
         teamId             |-> submission.team_id,
         problemId          |-> submission.problem_id,
         problemLetter      |-> submission.problem_id,
         submissionId       |-> submission.id,
         requestedAt        |-> submission.time,
         status             |-> IF pageAlreadyDelivered(submission, delivered)
                                THEN "delivered" ELSE "pending",
         deliveredAt        |-> IF pageAlreadyDelivered(submission, delivered)
                                THEN submission.time ELSE Undefined,
         notes              |-> notes(firstAC, firstSolve, firstTeam),
         isFirstSolve       |-> firstSolve,
         isFirstTeamSolve   |-> firstTeam,
         isFirstACInContest |-> firstAC]

\* acceptedSubmissions.forEach: a submission whose team or problem is not found
\* is skipped and does not advance deliveryIdCounter
RECURSIVE newDeliveries(_, _, _, _, _)
newDeliveries(accepted, collected, data, delivered, out) ==
    IF accepted = <<>> THEN out
    ELSE LET submission == Head(accepted)
             found == /\ \E t \in DOMAIN data.teams :
                            data.teams[t].id = submission.team_id
                      /\ \E q \in DOMAIN data.problems :
                            data.problems[q].id = submission.problem_id
         IN  newDeliveries(Tail(accepted), collected, data, delivered,
                 IF found
                 THEN Append(out, pageDelivery(submission, collected,
                                               Len(out) + 1, delivered))
                 ELSE out)

\* the list the derivation effect hands to setAllDeliveries
derivedList(data, delivered) ==
    LET collected ==
            collectAccepted(sortedByTime(data.submissions),
                            [acceptedSubmissions |-> <<>>,
                             firstACInContest |-> <<>>,
                             firstSolves |-> <<>>,
                             firstTeamSolve |-> <<>>],
                            judgementsBySubmission(data.judgements))
    IN  newDeliveries(collected.acceptedSubmissions, collected, data, delivered, <<>>)

\* the derivation effect: returns without setAllDeliveries when there is no
\* event or a collection is missing
derivationEffect(evts, delivered, current) ==
    IF evts = <<>> THEN current
    ELSE IF ~hasCollections(evts[1].data.data) THEN current
    ELSE derivedList(evts[1].data.data, delivered)

\* a filter that forgets the assigned records
pendingOf_onlyPending(records) == SelectSeq(records, LAMBDA d : d.status = "pending")

\* allDeliveries.filter(d => d.status === "pending" || d.status === "assigned")
pendingOf(records) ==
    SelectSeq(records, LAMBDA d : d.status \in {"pending", "assigned"})

\* allDeliveries.filter(delivered or confirmed).slice(0, 10)
recentOf(records) ==
    LET kept == SelectSeq(records, LAMBDA d : d.status \in {"delivered", "confirmed"})
    IN  SubSeq(kept, 1, IF Len(kept) < RecentLimit THEN Len(kept) ELSE RecentLimit)

\* a key with the problem in front of the team
markedKey_problemFirst(record) == record.problemId \o <<"-">> \o record.teamId

\* `${delivery.teamId}-${delivery.problemId}`
markedKey(record) == record.teamId \o <<"-">> \o record.problemId

\* new Date().toISOString() at the time of the call
Now == "now"

\* a mutation that confirms the record it marks
markedList_confirmed(records, deliveryId) ==
    [i \in DOMAIN records |->
        IF records[i].id = deliveryId
        THEN [records[i] EXCEPT !.status = "confirmed", !.deliveredAt = Now]
        ELSE records[i]]

\* prev.map(...) of markAsDelivered
markedList(records, deliveryId) ==
    [i \in DOMAIN records |->
        IF records[i].id = deliveryId
        THEN [records[i] EXCEPT !.status = "delivered", !.deliveredAt = Now]
        ELSE records[i]]

\* the hash of getContestDataHash taken over response.data, where the proxy
\* response has the collections
getContestDataHash_collections(response) ==
    IF "data" \in DOMAIN response /\ hasCollections(response.data)
    THEN LET d == response.data
         IN  <<Len(d.submissions), Len(d.judgements),
               Len(SelectSeq(d.judgements, LAMBDA j : j.judgement_type_id = "AC")),
               Len(d.teams), Len(d.problems),
               [i \in 1..(IF Len(d.submissions) < 3 THEN Len(d.submissions) ELSE 3) |->
                   d.submissions[Len(d.submissions)
                       - (IF Len(d.submissions) < 3 THEN Len(d.submissions) ELSE 3) + i].id],
               [i \in 1..(IF Len(d.judgements) < 3 THEN Len(d.judgements) ELSE 3) |->
                   d.judgements[Len(d.judgements)
                       - (IF Len(d.judgements) < 3 THEN Len(d.judgements) ELSE 3) + i].id]>>
    ELSE <<>>

\* a hash that reads the collections where the proxy response has them, in
\* response.data
getContestDataHash_responseData(response) ==
    IF "data" \in DOMAIN response /\ hasCollections(response.data)
    THEN LET d == response.data
         IN  <<Len(d.submissions), Len(d.judgements),
               Len(SelectSeq(d.judgements, LAMBDA j : j.judgement_type_id = "AC")),
               Len(d.teams), Len(d.problems)>>
    ELSE <<>>

\* getContestDataHash: reads data?.data?.data of the proxy response; "" (here
\* <<>>) when a collection is not found there
getContestDataHash(response) ==
    IF /\ "data" \in DOMAIN response
       /\ "data" \in DOMAIN response.data
       /\ hasCollections(response.data.data)
    THEN LET d == response.data.data
         IN  <<Len(d.submissions), Len(d.judgements),
               Len(SelectSeq(d.judgements, LAMBDA j : j.judgement_type_id = "AC")),
               Len(d.teams), Len(d.problems),
               [i \in 1..(IF Len(d.submissions) < 3 THEN Len(d.submissions) ELSE 3) |->
                   d.submissions[Len(d.submissions)
                       - (IF Len(d.submissions) < 3 THEN Len(d.submissions) ELSE 3) + i].id],
               [i \in 1..(IF Len(d.judgements) < 3 THEN Len(d.judgements) ELSE 3) |->
                   d.judgements[Len(d.judgements)
                       - (IF Len(d.judgements) < 3 THEN Len(d.judgements) ELSE 3) + i].id]>>
    ELSE <<>>

\* what the proxy answers: { data: { submissions, judgements, teams, problems } }
Response(snapshot) == [data |-> snapshot]

\* the submissions arrays the polls of the model return, as positions in the
\* pool: one submission, the two of the scenario, the two of pair B/X
PolledArrays == {<<1>>, <<2, 1>>, <<1, 3>>}

\* what the proxy answers when the judgements endpoint failed: response.data has
\* no judgements
PartialSnapshot ==
    [submissions |-> <<SubmissionPool[1]>>,
     teams       |-> <<TeamA, TeamB>>,
     problems    |-> <<ProblemX, ProblemY>>]

\* the snapshots the polls of the model return: every submission judged, all
\* teams and problems known; or the partial one
PolledSnapshots ==
    UNION {{Snapshot(a, verdict,
                     [teams |-> <<TeamA, TeamB>>, problems |-> <<ProblemX, ProblemY>>]) :
                verdict \in [DOMAIN a -> {"AC", "WA"}]} :
           a \in PolledArrays}
        \cup {PartialSnapshot}

\* the data of the event a failed poll adds: { message: errorMessage }
ErrorData == [message |-> "Failed to fetch from API"]

\* events[0].data.data is undefined: the newest event is not a proxy response,
\* and the destructuring of line 64 throws a TypeError
derivationThrows(evts) == evts # <<>> /\ "data" \notin DOMAIN evts[1].data

\* getContestData() of the render: events[0].data.data, null without events;
\* whether markAsDelivered finds it truthy
contestDataTruthy(evts) == evts # <<>> /\ "data" \in DOMAIN evts[1].data

\* addEvent("contest", data) of a successful poll, with the render it causes
addEvent(snapshot) ==
    /\ ~effects
    /\ pageError = "none"
    /\ Len(events) < MaxEvents
    /\ LET response == Response(snapshot)
           currentHash == getContestDataHash(response)
       IN  IF currentHash # <<>> /\ currentHash = lastContestDataRef
           THEN UNCHANGED <<events, lastContestDataRef, effects, justMarked,
                            beforeError>>
           ELSE /\ lastContestDataRef' = currentHash
                /\ events' = <<[type |-> "contest", data |-> response]>> \o events
                /\ effects' = TRUE
                /\ justMarked' = {}
                /\ beforeError' = <<>>
    /\ missed' = FALSE
    /\ UNCHANGED <<deliveredBalloons, allDeliveries, pendingDeliveries,
                   recentDeliveries, localStorage, markedPairs, pageError,
                   printRequests, restartedFrom, printing, printFailed>>
    /\ UNCHANGED hookVars
    /\ UNCHANGED connVars

\* addEvent("error", { message }) of a failed poll, with the render it causes
addErrorEvent ==
    /\ ~effects
    /\ pageError = "none"
    /\ Len(events) < MaxEvents
    /\ events' = <<[type |-> "error", data |-> ErrorData]>> \o events
    /\ effects' = TRUE
    /\ justMarked' = {}
    /\ missed' = FALSE
    /\ beforeError' = <<[all     |-> allDeliveries,
                         pending |-> pendingDeliveries,
                         recent  |-> recentDeliveries]>>
    /\ UNCHANGED <<lastContestDataRef, deliveredBalloons, allDeliveries,
                   pendingDeliveries, recentDeliveries, localStorage, markedPairs,
                   pageError, printRequests, restartedFrom, printing, printFailed>>
    /\ UNCHANGED hookVars
    /\ UNCHANGED connVars

\* printBalloonDelivery(delivery, contestData) up to its fetch: whether it
\* sends a request to the print server. It returns before when printing is
\* disabled, or when contestData has no team or no problem of the record
printSends(enablePrinting, data, record) ==
    /\ enablePrinting
    /\ "teams" \in DOMAIN data
    /\ \E i \in DOMAIN data.teams : data.teams[i].id = record.teamId
    /\ "problems" \in DOMAIN data
    /\ \E i \in DOMAIN data.problems : data.problems[i].id = record.problemId

\* a print failure that reaches the page as an error
afterPrintFailure_uncaught(error) == "PrintError"

\* the error state of the page after a print request failed: the catch block
\* of printBalloonDelivery logs the error and shows a notification, and the
\* promise markAsDelivered holds does not reject
afterPrintFailure(error) == error

\* a lookup that finds a record whenever the list has one
findDelivery_any(records, deliveryId) == records # <<>>

\* allDeliveries.find(d => d.id === deliveryId): whether there is such a record
findDelivery(records, deliveryId) ==
    \E i \in DOMAIN records : records[i].id = deliveryId

\* markAsDelivered(deliveryId), up to the render its state updates cause
markAsDelivered(deliveryId) ==
    /\ ~effects
    /\ pageError = "none"
    /\ IF ~findDelivery(allDeliveries, deliveryId)
       THEN /\ missed' = TRUE
            /\ UNCHANGED <<allDeliveries, deliveredBalloons, effects, markedPairs,
                           printRequests, justMarked, restartedFrom, beforeError,
                           printing>>
       ELSE LET hit == {k \in DOMAIN allDeliveries : allDeliveries[k].id = deliveryId}
            IN  /\ allDeliveries' = markedList(allDeliveries, deliveryId)
                /\ deliveredBalloons' = deliveredBalloons \cup
                      {markedKey(allDeliveries[i]) : i \in hit}
                /\ markedPairs' = markedPairs \cup
                      {[teamId    |-> allDeliveries[i].teamId,
                        problemId |-> allDeliveries[i].problemId] :
                          i \in {k \in hit : allDeliveries[k].status = "pending"}}
                /\ printRequests' =
                      IF contestDataTruthy(events) /\ hit # {}
                      THEN printRequests \cup {deliveryId}
                      ELSE printRequests
                /\ \E enablePrinting \in BOOLEAN :
                      printing' = printing \cup
                          {[id |-> deliveryId, key |-> markedKey(allDeliveries[i])] :
                              i \in {k \in hit :
                                         /\ contestDataTruthy(events)
                                         /\ printSends(enablePrinting,
                                                       events[1].data.data,
                                                       allDeliveries[k])}}
                /\ justMarked' = {deliveryId}
                /\ restartedFrom' = <<>>
                /\ effects' = TRUE
                /\ missed' = FALSE
                /\ beforeError' = <<>>
    /\ UNCHANGED <<events, lastContestDataRef, pendingDeliveries, recentDeliveries,
                   localStorage, pageError, printFailed>>
    /\ UNCHANGED hookVars
    /\ UNCHANGED connVars

\* the passive effects of the Index page after a render: persist the delivered
\* set, derive the list from the newest event, partition it. A TypeError thrown
\* by the derivation effect is caught by no error boundary: the tree unmounts
runEffects ==
    /\ effects
    /\ localStorage' = deliveredBalloons
    /\ IF derivationThrows(events)
       THEN /\ pageError' = "TypeError"
            /\ UNCHANGED allDeliveries
       ELSE /\ allDeliveries' =
                  derivationEffect(events, deliveredBalloons, allDeliveries)
            /\ UNCHANGED pageError
    /\ pendingDeliveries' = pendingOf(allDeliveries')
    /\ recentDeliveries' = recentOf(allDeliveries')
    /\ effects' = FALSE
    /\ missed' = FALSE
    /\ UNCHANGED <<events, lastContestDataRef, deliveredBalloons, markedPairs,
                   printRequests, justMarked, restartedFrom, beforeError, printing,
                   printFailed>>
    /\ UNCHANGED hookVars
    /\ UNCHANGED connVars

\* the print server answers a request and response.ok holds: logged only
printSucceeds(request) ==
    /\ request \in printing
    /\ printing' = printing \ {request}
    /\ UNCHANGED <<events, lastContestDataRef, deliveredBalloons, allDeliveries,
                   pendingDeliveries, recentDeliveries, localStorage, effects,
                   markedPairs, pageError, printRequests, justMarked, restartedFrom,
                   missed, beforeError, printFailed>>
    /\ UNCHANGED hookVars
    /\ UNCHANGED connVars

\* the fetch of a print request rejects, or response.ok does not hold: the
\* catch block of printBalloonDelivery
printFails(request) ==
    /\ request \in printing
    /\ printing' = printing \ {request}
    /\ printFailed' = printFailed \cup {request}
    /\ pageError' = afterPrintFailure(pageError)
    /\ UNCHANGED <<events, lastContestDataRef, deliveredBalloons, allDeliveries,
                   pendingDeliveries, recentDeliveries, localStorage, effects,
                   markedPairs, printRequests, justMarked, restartedFrom,
                   missed, beforeError>>
    /\ UNCHANGED hookVars
    /\ UNCHANGED connVars

\* a load effect that ignores what is stored
loadDeliveredBalloons_nothing(storage) == {}

\* the load effect: new Set(JSON.parse(localStorage.getItem("deliveredBalloons")))
loadDeliveredBalloons(storage) == storage

\* the page is loaded anew: provider and page start from their initial state. The
\* first render has the empty set: its load effect reads the stored set and
\* queues it, its persist effect writes the empty set, its derivation effect
\* finds no event. The step ends with the render of the loaded set committed and
\* that render's effects still to run
restart ==
    /\ ~effects
    /\ events' = <<>>
    /\ lastContestDataRef' = <<>>
    /\ deliveredBalloons' = loadDeliveredBalloons(localStorage)
    /\ localStorage' = {}
    /\ allDeliveries' = <<>>
    /\ pendingDeliveries' = <<>>
    /\ recentDeliveries' = <<>>
    /\ pageError' = "none"
    /\ justMarked' = {}
    /\ restartedFrom' = <<localStorage>>
    /\ effects' = TRUE
    /\ missed' = FALSE
    /\ beforeError' = <<>>
    /\ printing' = {}
    /\ printFailed' = {}
    /\ UNCHANGED <<markedPairs, printRequests>>
    /\ UNCHANGED hookVars
    /\ UNCHANGED connVars

\* the delivery ids a click can carry: those of the list, and one of no record
DeliveryIds == {counterId(n) : n \in 1..3}

Init ==
    /\ contestData = EmptySnapshot
    /\ hookDelivered = {}
    /\ deliveries = <<>>
    /\ memo = "stale"
    /\ PageInit

Next ==
    \/ \E snapshot \in PolledSnapshots : addEvent(snapshot)
    \/ addErrorEvent
    \/ \E deliveryId \in DeliveryIds : markAsDelivered(deliveryId)
    \/ runEffects
    \/ restart
    \/ \E request \in printing : printSucceeds(request)
    \/ \E request \in printing : printFails(request)

Spec == Init /\ [][Next]_vars

----------------------------------------------------------------------------
(* The partition effect of the Index page, over lists longer than the limit *)

\* longest list handed to the partition effect
MaxRecords == 12

\* the statuses of the BalloonDelivery type
Statuses == {"pending", "assigned", "delivered", "confirmed"}

\* the statuses of a list repeat one of these patterns
StatusPatterns ==
    { <<"delivered">>,
      <<"pending", "delivered">>,
      <<"pending", "assigned", "delivered", "confirmed">>,
      <<"confirmed", "delivered", "delivered", "pending">> }

\* a list of n records in submission order, record i with id delivery-<i>
RecordList(n, pattern, offset) ==
    [i \in 1..n |->
        [id     |-> counterId(i),
         status |-> pattern[((i + offset) % Len(pattern)) + 1]]]

\* the partition effect: setPendingDeliveries and setRecentDeliveries
partitionEffect ==
    /\ effects
    /\ pendingDeliveries' = pendingOf(allDeliveries)
    /\ recentDeliveries' = recentOf(allDeliveries)
    /\ effects' = FALSE
    /\ UNCHANGED <<events, lastContestDataRef, deliveredBalloons, allDeliveries,
                   localStorage, markedPairs, pageError, printRequests, justMarked,
                   restartedFrom, missed, beforeError, printing, printFailed>>
    /\ UNCHANGED hookVars
    /\ UNCHANGED connVars

InitPartition ==
    /\ contestData = EmptySnapshot
    /\ hookDelivered = {}
    /\ deliveries = <<>>
    /\ memo = "stale"
    /\ events = <<>>
    /\ lastContestDataRef = <<>>
    /\ deliveredBalloons = {}
    /\ \E n \in 0..MaxRecords :
          \E pattern \in StatusPatterns :
              \E offset \in 0..3 :
                  allDeliveries = RecordList(n, pattern, offset)
    /\ pendingDeliveries = <<>>
    /\ recentDeliveries = <<>>
    /\ localStorage = {}
    /\ effects = TRUE
    /\ markedPairs = {}
    /\ pageError = "none"
    /\ printRequests = {}
    /\ justMarked = {}
    /\ restartedFrom = <<>>
    /\ missed = FALSE
    /\ beforeError = <<>>
    /\ printing = {}
    /\ printFailed = {}
    /\ ProviderIdle
    /\ wasConnected = "false"

NextPartition == partitionEffect

SpecPartition == InitPartition /\ [][NextPartition]_vars

----------------------------------------------------------------------------
(* ContestConnectionProvider: connect, disconnect, pollApi and their timers *)

\* const maxReconnectAttempts = 5
maxReconnectAttempts == 5

\* const pollingInterval = 7000
pollingInterval == 7000

\* pollApi calls a run of the model makes at most
MaxFetches == 7

\* pollApi calls that await their fetch at the same time, at most
MaxInFlight == 2

RECURSIVE Pow2(_)
\* Math.pow(2, n)
Pow2(n) == IF n = 0 THEN 1 ELSE 2 * Pow2(n - 1)

\* Math.min(1000 * Math.pow(2, reconnectAttempts.current), 30000), evaluated
\* after reconnectAttempts.current++
reconnectDelay(attempts) ==
    IF 1000 * Pow2(attempts) < 30000 THEN 1000 * Pow2(attempts) ELSE 30000

\* A pollApi call awaiting its fetch keeps what it closes over: the
\* autoReconnect of the connect() call it belongs to (auto), and whether it is
\* the call whose promise connect() chains its .then on (first).
PollApiCall(first, auto) == [first |-> first, auto |-> auto]

\* A timer of the event loop: its kind, its delay, the autoReconnect of the
\* closure of its callback (auto), and whether the ref of its kind holds its
\* id (held). History: nth, for a reconnect timer, the number its connect()
\* call will have among those made by timers since the last connect() that was
\* not.
IntervalTimer(fetch) ==
    [kind |-> "interval", delay |-> pollingInterval, auto |-> fetch.auto,
     held |-> TRUE, nth |-> 0]

TimeoutTimer(fetch, attempts, nth) ==
    [kind |-> "timeout", delay |-> reconnectDelay(attempts), auto |-> fetch.auto,
     held |-> TRUE, nth |-> nth]

RECURSIVE copiesOf(_, _)
\* the number of elements of the bag B, counted over the elements S
copiesOf(B, S) ==
    IF S = {} THEN 0
    ELSE LET e == CHOOSE x \in S : TRUE
         IN  B[e] + copiesOf(B, S \ {e})

\* clearInterval(pollingIntervalRef.current) and
\* clearTimeout(reconnectTimeoutRef.current) of disconnect: the timers of the
\* bag that are left. Clearing an id whose timer has fired removes nothing.
cleared(ts) == [t \in {x \in DOMAIN ts : ~x.held} |-> ts[t]]

\* ref.current = setTimeout(...) or setInterval(...): the timer joins the bag,
\* and the timer whose id the ref held is no longer held
released(t, kind) == IF t.kind = kind THEN [t EXCEPT !.held = FALSE] ELSE t

unheld(ts, kind) ==
    [x \in {released(t, kind) : t \in DOMAIN ts} |->
        copiesOf(ts, {t \in DOMAIN ts : released(t, kind) = x})]

withTimer(ts, timer) == unheld(ts, timer.kind) (+) SetToBag({timer})

pageRest == <<deliveredBalloons, allDeliveries, pendingDeliveries, recentDeliveries,
              localStorage, effects, markedPairs, pageError, printRequests,
              justMarked, restartedFrom, missed, beforeError, printing,
              printFailed>>

\* the body of disconnect(), while the timers ts are to fire
disconnectBody(ts) ==
    /\ timers' = cleared(ts)
    /\ pollingIntervalRef' = "null"
    /\ reconnectTimeoutRef' = "null"
    /\ reconnectAttempts' = 0
    /\ wasConnected' = "false"

\* disconnect() called from the page
disconnect ==
    /\ mounted
    /\ disconnectBody(timers)
    /\ connectionStatus' = "disconnected"
    /\ stopped' = TRUE
    /\ UNCHANGED <<autoReconnect, mounted, fetches, fetchCount, autoConnects,
                   succeeded>>
    /\ UNCHANGED <<events, lastContestDataRef>>
    /\ UNCHANGED pageRest
    /\ UNCHANGED hookVars

\* the cleanup of the provider's last effect: disconnect() at unmount
unmount ==
    /\ mounted
    /\ mounted' = FALSE
    /\ disconnectBody(timers)
    /\ connectionStatus' = "disconnected"
    /\ stopped' = TRUE
    /\ UNCHANGED <<autoReconnect, fetches, fetchCount, autoConnects, succeeded>>
    /\ UNCHANGED <<events, lastContestDataRef>>
    /\ UNCHANGED pageRest
    /\ UNCHANGED hookVars

\* connect() with a complete apiConfig, in a closure whose autoReconnect is
\* auto, while the timers ts are to fire: disconnect(), status "testing", and
\* the first pollApi() up to its fetch
connectBody(ts, auto) ==
    /\ fetchCount < MaxFetches
    /\ BagCardinality(fetches) < MaxInFlight
    /\ disconnectBody(ts)
    /\ connectionStatus' = "testing"
    /\ fetchCount' = fetchCount + 1
    /\ fetches' = fetches (+) SetToBag({PollApiCall(TRUE, auto)})
    /\ stopped' = FALSE

\* connect() called from the page; complete tells whether apiConfig has its
\* url, username and password
connect(complete) ==
    /\ mounted
    /\ IF complete
       THEN /\ connectBody(timers, autoReconnect)
            /\ autoConnects' = 0
            /\ succeeded' = FALSE
       ELSE /\ connectionStatus' = "error"
            /\ UNCHANGED <<pollingIntervalRef, reconnectTimeoutRef, reconnectAttempts,
                           wasConnected, timers, fetches, fetchCount, autoConnects,
                           stopped, succeeded>>
    /\ UNCHANGED <<autoReconnect, mounted>>
    /\ UNCHANGED <<events, lastContestDataRef>>
    /\ UNCHANGED pageRest
    /\ UNCHANGED hookVars

\* the effect that connects with the loaded config: the stored flag says the
\* last visit was connected, apiConfig is complete with enableAutoSync, and the
\* status is "disconnected"
autoConnectEffect ==
    /\ mounted
    /\ wasConnected = "true"
    /\ connectionStatus = "disconnected"
    /\ connectBody(timers, autoReconnect)
    /\ autoConnects' = 0
    /\ succeeded' = FALSE
    /\ UNCHANGED <<autoReconnect, mounted>>
    /\ UNCHANGED <<events, lastContestDataRef>>
    /\ UNCHANGED pageRest
    /\ UNCHANGED hookVars

\* setAutoReconnect(value) called from the page
setAutoReconnect(value) ==
    /\ mounted
    /\ value # autoReconnect
    /\ autoReconnect' = value
    /\ UNCHANGED <<connectionStatus, pollingIntervalRef, reconnectTimeoutRef,
                   reconnectAttempts, wasConnected, mounted, timers, fetches,
                   fetchCount, autoConnects, stopped, succeeded>>
    /\ UNCHANGED <<events, lastContestDataRef>>
    /\ UNCHANGED pageRest
    /\ UNCHANGED hookVars

\* the callback of a reconnect timer: if (autoReconnect) connect(), both of the
\* closure that set the timer
reconnectTimerFires(timer) ==
    /\ BagIn(timer, timers)
    /\ timer.kind = "timeout"
    /\ IF timer.auto
       THEN /\ connectBody(timers (-) SetToBag({timer}), timer.auto)
            /\ autoConnects' = autoConnects + 1
       ELSE /\ timers' = timers (-) SetToBag({timer})
            /\ UNCHANGED <<connectionStatus, pollingIntervalRef, reconnectTimeoutRef,
                           reconnectAttempts, wasConnected, fetches, fetchCount,
                           autoConnects, stopped>>
    /\ UNCHANGED <<autoReconnect, mounted, succeeded>>
    /\ UNCHANGED <<events, lastContestDataRef>>
    /\ UNCHANGED pageRest
    /\ UNCHANGED hookVars

\* a tick of setInterval(pollApi, pollingInterval): pollApi() up to its fetch
pollingIntervalFires(timer) ==
    /\ BagIn(timer, timers)
    /\ timer.kind = "interval"
    /\ fetchCount < MaxFetches
    /\ BagCardinality(fetches) < MaxInFlight
    /\ fetchCount' = fetchCount + 1
    /\ fetches' = fetches (+) SetToBag({PollApiCall(FALSE, timer.auto)})
    /\ UNCHANGED <<connectionStatus, autoReconnect, pollingIntervalRef,
                   reconnectTimeoutRef, reconnectAttempts, wasConnected, mounted,
                   timers, autoConnects, stopped, succeeded>>
    /\ UNCHANGED <<events, lastContestDataRef>>
    /\ UNCHANGED pageRest
    /\ UNCHANGED hookVars

\* pollApi().then(() => { if (autoReconnect) pollingIntervalRef.current =
\* setInterval(...) }) of connect(): runs when the first pollApi of the call has
\* settled; ts are the timers the pollApi left
thenStartPolling(fetch, ts) ==
    IF fetch.first /\ fetch.auto
    THEN /\ timers' = withTimer(ts, IntervalTimer(fetch))
         /\ pollingIntervalRef' = "id"
    ELSE /\ timers' = ts
         /\ UNCHANGED pollingIntervalRef

\* the fetch of a pollApi call answers and response.ok holds: the rest of the
\* try block, then the .then of connect()
fetchSucceeds(fetch) ==
    /\ BagIn(fetch, fetches)
    /\ fetches' = fetches (-) SetToBag({fetch})
    /\ reconnectAttempts' = 0
    /\ wasConnected' = "true"
    /\ connectionStatus' = "connected"
    /\ LET response == Response(FullSnapshot)
           currentHash == getContestDataHash(response)
       IN  IF currentHash # <<>> /\ currentHash = lastContestDataRef
           THEN UNCHANGED <<events, lastContestDataRef>>
           ELSE /\ lastContestDataRef' = currentHash
                /\ events' = <<[type |-> "contest", data |-> response]>> \o events
    /\ thenStartPolling(fetch, timers)
    /\ succeeded' = TRUE
    /\ UNCHANGED <<autoReconnect, reconnectTimeoutRef, mounted, fetchCount,
                   autoConnects, stopped>>
    /\ UNCHANGED pageRest
    /\ UNCHANGED hookVars

\* the fetch of a pollApi call rejects, or response.ok does not hold: the catch
\* block, then the .then of connect()
fetchFails(fetch) ==
    /\ BagIn(fetch, fetches)
    /\ fetches' = fetches (-) SetToBag({fetch})
    /\ connectionStatus' = "error"
    /\ events' = <<[type |-> "error", data |-> ErrorData]>> \o events
    /\ IF fetch.auto /\ reconnectAttempts < maxReconnectAttempts
       THEN /\ reconnectAttempts' = reconnectAttempts + 1
            /\ reconnectTimeoutRef' = "id"
            /\ thenStartPolling(fetch,
                   withTimer(timers, TimeoutTimer(fetch, reconnectAttempts + 1,
                                                  autoConnects + 1)))
            /\ UNCHANGED wasConnected
       ELSE /\ wasConnected' = "false"
            /\ thenStartPolling(fetch, timers)
            /\ UNCHANGED <<reconnectAttempts, reconnectTimeoutRef>>
    /\ UNCHANGED <<autoReconnect, mounted, fetchCount, autoConnects, stopped,
                   succeeded>>
    /\ UNCHANGED lastContestDataRef
    /\ UNCHANGED pageRest
    /\ UNCHANGED hookVars

InitConn ==
    /\ contestData = EmptySnapshot
    /\ hookDelivered = {}
    /\ deliveries = <<>>
    /\ memo = "stale"
    /\ PageIdle
    /\ ProviderIdle
    /\ wasConnected \in {"true", "false"}

NextConn ==
    \/ \E complete \in BOOLEAN : connect(complete)
    \/ disconnect
    \/ unmount
    \/ autoConnectEffect
    \/ \E value \in BOOLEAN : setAutoReconnect(value)
    \/ \E timer \in DOMAIN timers : reconnectTimerFires(timer)
    \/ \E timer \in DOMAIN timers : pollingIntervalFires(timer)
    \/ \E fetch \in DOMAIN fetches : fetchSucceeds(fetch)
    \/ \E fetch \in DOMAIN fetches : fetchFails(fetch)

SpecConn == InitConn /\ [][NextConn]_vars

\* the provider's polling alone: connect() with a complete apiConfig, the two
\* kinds of timer and the two outcomes of a fetch; the page calls nothing else
NextPoll ==
    \/ connect(TRUE)
    \/ \E timer \in DOMAIN timers : reconnectTimerFires(timer)
    \/ \E timer \in DOMAIN timers : pollingIntervalFires(timer)
    \/ \E fetch \in DOMAIN fetches : fetchSucceeds(fetch)
    \/ \E fetch \in DOMAIN fetches : fetchFails(fetch)

SpecPoll == InitConn /\ [][NextPoll]_vars

----------------------------------------------------------------------------
(* Properties of processDeliveries, over the hook's memo *)

\* the memo has been computed over a snapshot that has its four collections
Fresh == memo = "fresh" /\ hasCollections(contestData)

\* the submission is accepted and its team and problem are in the snapshot
Eligible(data, submission) ==
    /\ isAccepted(judgementsBySubmission(data.judgements), submission)
    /\ \E t \in DOMAIN data.teams : data.teams[t].id = submission.team_id
    /\ \E q \in DOMAIN data.problems : data.problems[q].id = submission.problem_id

SamePair(submission, record) ==
    /\ submission.team_id = record.teamId
    /\ submission.problem_id = record.problemId

\* the eligible submissions of the snapshot, in the sort order
EligibleSorted ==
    SelectSeq(sortedSubmissions(contestData.submissions),
              LAMBDA sub : Eligible(contestData, sub))

\* positions in a sequence of submissions of those of a record's pair
PairPositions(subs, record) == {k \in DOMAIN subs : SamePair(subs[k], record)}

Min(S) == CHOOSE x \in S : \A y \in S : x <= y

\* C1: the output of processDeliveries holds at most one record per
\* (teamId, problemId) pair, however many accepted submissions the pair has.
C1_Uniqueness ==
    Fresh =>
        \A i, j \in DOMAIN deliveries :
            (/\ deliveries[i].teamId = deliveries[j].teamId
             /\ deliveries[i].problemId = deliveries[j].problemId) => i = j

\* a pair with two eligible submissions, and its single record
C1_Witness ==
    /\ Fresh
    /\ LET eligible == EligibleSorted
       IN  \E i \in DOMAIN deliveries :
              Cardinality(PairPositions(eligible, deliveries[i])) >= 2

\* C2: a record carries the submission id of the first eligible submission of its
\* pair in the sort order; a later one neither replaces it nor adds a record.
C2_FirstAcceptedWins ==
    Fresh =>
        LET eligible == EligibleSorted
        IN  /\ \A i \in DOMAIN deliveries :
                  LET positions == PairPositions(eligible, deliveries[i])
                  IN  /\ positions # {}
                      /\ deliveries[i].submissionId = eligible[Min(positions)].id
            /\ \A k \in DOMAIN eligible :
                  Cardinality({i \in DOMAIN deliveries :
                                  SamePair(eligible[k], deliveries[i])}) = 1

\* submissions "1" and "10" of pair B/X both eligible, "10" first in the array
C2_Witness ==
    /\ Fresh
    /\ LET eligible == EligibleSorted
       IN  \E i \in DOMAIN deliveries :
              /\ Cardinality(PairPositions(eligible, deliveries[i])) >= 2
              /\ deliveries[i].submissionId # contestData.submissions[1].id
              /\ SamePair(contestData.submissions[1], deliveries[i])
              /\ Eligible(contestData, contestData.submissions[1])

\* C3: isFirstSolve is true exactly on the first record of each problem in the
\* output, so every problem of the output has exactly one first solve.
C3_FirstSolve ==
    Fresh =>
        /\ \A i \in DOMAIN deliveries :
              deliveries[i].isFirstSolve <=>
                 (\A k \in 1..(i - 1) : deliveries[k].problemId # deliveries[i].problemId)
        /\ \A i \in DOMAIN deliveries :
              Cardinality({k \in DOMAIN deliveries :
                              /\ deliveries[k].problemId = deliveries[i].problemId
                              /\ deliveries[k].isFirstSolve}) = 1

\* two teams solved the same problem: the earlier record is the first solve
C3_Witness ==
    /\ Fresh
    /\ \E i, k \in DOMAIN deliveries :
          /\ i < k
          /\ deliveries[i].problemId = deliveries[k].problemId
          /\ deliveries[i].teamId # deliveries[k].teamId
          /\ deliveries[i].isFirstSolve
          /\ ~deliveries[k].isFirstSolve

\* C4: in a non-empty output exactly the first record has isFirstACInContest, and
\* it is the record of the first eligible submission in the sort order.
C4_FirstACInContest ==
    (Fresh /\ deliveries # <<>>) =>
        /\ deliveries[1].isFirstACInContest
        /\ \A i \in DOMAIN deliveries : i > 1 => ~deliveries[i].isFirstACInContest
        /\ LET eligible == EligibleSorted
           IN  /\ eligible # <<>>
               /\ deliveries[1].submissionId = eligible[1].id

C4_Witness ==
    /\ Fresh
    /\ Len(deliveries) >= 2
    /\ deliveries[1].isFirstACInContest
    /\ ~deliveries[2].isFirstACInContest

\* the time of the submission a record was made from
SubmissionTime(record) ==
    LET k == CHOOSE k \in DOMAIN contestData.submissions :
                 contestData.submissions[k].id = record.submissionId
    IN  contestData.submissions[k].time

RecordKey(record) == record.teamId \o <<"-">> \o record.problemId

\* C5: a record is "delivered", with deliveredAt the submission time, exactly when
\* its key is in the delivered set, and "pending" with no deliveredAt otherwise.
C5_StatusMerge ==
    Fresh =>
        \A i \in DOMAIN deliveries :
            /\ RecordKey(deliveries[i]) \in hookDelivered =>
                  /\ deliveries[i].status = "delivered"
                  /\ deliveries[i].deliveredAt = SubmissionTime(deliveries[i])
            /\ RecordKey(deliveries[i]) \notin hookDelivered =>
                  /\ deliveries[i].status = "pending"
                  /\ deliveries[i].deliveredAt = Undefined

C5_Witness ==
    /\ Fresh
    /\ \E i, k \in DOMAIN deliveries :
          /\ deliveries[i].status = "delivered"
          /\ deliveries[k].status = "pending"

\* the comparison the ordering is stated in: numeric when both ids parse, else
\* lexicographic
IdCompare(a, b) ==
    IF parseInt(a) # NaN /\ parseInt(b) # NaN
    THEN parseInt(a) - parseInt(b)
    ELSE localeCompare(a, b)

\* what a record says apart from its timestamps
Shape(records) ==
    [i \in DOMAIN records |->
        [submissionId       |-> records[i].submissionId,
         teamId             |-> records[i].teamId,
         problemId          |-> records[i].problemId,
         isFirstSolve       |-> records[i].isFirstSolve,
         isFirstTeamSolve   |-> records[i].isFirstTeamSolve,
         isFirstACInContest |-> records[i].isFirstACInContest]]

\* the snapshot with the submissions at positions i and i + 1 of its array
\* exchanged; every order of the array is reached by such exchanges
Exchanged(data, i) ==
    [data EXCEPT !.submissions =
        [k \in DOMAIN data.submissions |->
            IF k = i THEN data.submissions[i + 1]
            ELSE IF k = i + 1 THEN data.submissions[i]
            ELSE data.submissions[k]]]

\* other time fields for the submissions: all the same, or in reverse
Retimings(data) ==
    {[i \in DOMAIN data.submissions |-> "T1"],
     [i \in DOMAIN data.submissions |->
         data.submissions[Len(data.submissions) + 1 - i].time]}

\* the snapshot with other time fields
Retimed(data, tm) ==
    [data EXCEPT !.submissions =
        [i \in DOMAIN tm |-> [data.submissions[i] EXCEPT !.time = tm[i]]]]

ArrayPosition(record) ==
    CHOOSE k \in DOMAIN contestData.submissions :
        contestData.submissions[k].id = record.submissionId

Ascending ==
    \A i, k \in DOMAIN deliveries :
        i < k => IdCompare(deliveries[i].submissionId, deliveries[k].submissionId) <= 0

TimeIndependent ==
    \A tm \in Retimings(contestData) :
        Shape(processDeliveries(Retimed(contestData, tm), hookDelivered))
            = Shape(deliveries)

\* submissions [{id "2", A, X}, {id "1", B, X}], both accepted
ScenarioSnapshot ==
    Snapshot(<<2, 1>>, <<"AC", "AC">>,
             [teams |-> <<TeamA, TeamB>>, problems |-> <<ProblemX, ProblemY>>])

Scenario ==
    contestData = ScenarioSnapshot =>
        /\ Len(deliveries) = 2
        /\ deliveries[1].teamId = <<"B">> /\ deliveries[1].problemId = <<"X">>
        /\ deliveries[1].isFirstSolve /\ deliveries[1].isFirstACInContest
        /\ deliveries[2].teamId = <<"A">> /\ deliveries[2].problemId = <<"X">>
        /\ ~deliveries[2].isFirstSolve /\ ~deliveries[2].isFirstACInContest

\* C8 as stated: the output is ascending by submission id (numeric when both ids
\* parse, else lexicographic) whatever the position of the submissions in the
\* array and whatever their times, and the scenario gives B/X then A/X.
C8_OrderIgnoresArrayPosition ==
    Fresh =>
        /\ Ascending
        /\ \A i \in 1..(Len(contestData.submissions) - 1) :
              Shape(processDeliveries(Exchanged(contestData, i), hookDelivered))
                  = Shape(deliveries)
        /\ TimeIndependent
        /\ Scenario

\* no two submissions of the snapshot have ids that compare equal
NoEqualIds ==
    \A i, k \in DOMAIN contestData.submissions :
        i # k => IdCompare(contestData.submissions[i].id,
                           contestData.submissions[k].id) # 0

\* C8, amended: the output is ascending by submission id whatever the times;
\* records whose ids compare equal ("2" and "02") keep the order of the
\* submissions array, and the output is independent of the array order when no
\* two ids compare equal.
C8_OrderById ==
    Fresh =>
        /\ Ascending
        /\ \A i, k \in DOMAIN deliveries :
              (/\ i < k
               /\ IdCompare(deliveries[i].submissionId, deliveries[k].submissionId) = 0)
                  => ArrayPosition(deliveries[i]) < ArrayPosition(deliveries[k])
        /\ NoEqualIds =>
              \A i \in 1..(Len(contestData.submissions) - 1) :
                  Shape(processDeliveries(Exchanged(contestData, i), hookDelivered))
                      = Shape(deliveries)
        /\ TimeIndependent
        /\ Scenario

\* "10" stands before "2" in the array and behind it in the output, and two
\* records with equal-comparing ids are in the output
C8_Witness ==
    /\ Fresh
    /\ \E i, k \in DOMAIN deliveries :
          /\ i < k
          /\ ArrayPosition(deliveries[i]) > ArrayPosition(deliveries[k])
          /\ localeCompare(deliveries[i].submissionId, deliveries[k].submissionId) > 0
    /\ \E i, k \in DOMAIN deliveries :
          /\ i < k
          /\ IdCompare(deliveries[i].submissionId, deliveries[k].submissionId) = 0

\* C9: isFirstTeamSolve is true exactly on the first record of each team in the
\* output; a team with eligible submissions for two problems gets a record for
\* both, and only the earlier one is its first team solve.
C9_FirstTeamSolve ==
    Fresh =>
        /\ \A i \in DOMAIN deliveries :
              deliveries[i].isFirstTeamSolve <=>
                 (\A k \in 1..(i - 1) : deliveries[k].teamId # deliveries[i].teamId)
        /\ LET eligible == EligibleSorted
           IN  \A a, b \in DOMAIN eligible :
                  (/\ eligible[a].team_id = eligible[b].team_id
                   /\ eligible[a].problem_id # eligible[b].problem_id)
                      => \E i, k \in DOMAIN deliveries :
                            /\ i < k
                            /\ deliveries[i].teamId = eligible[a].team_id
                            /\ deliveries[k].teamId = eligible[a].team_id
                            /\ {deliveries[i].problemId, deliveries[k].problemId}
                                  = {eligible[a].problem_id, eligible[b].problem_id}
                            /\ deliveries[i].isFirstTeamSolve
                            /\ ~deliveries[k].isFirstTeamSolve

\* one team solved two problems, another team's record stands between them
C9_Witness ==
    /\ Fresh
    /\ \E i, k \in DOMAIN deliveries :
          /\ i < k
          /\ deliveries[i].teamId = deliveries[k].teamId
          /\ deliveries[i].problemId # deliveries[k].problemId
          /\ deliveries[i].isFirstTeamSolve
          /\ ~deliveries[k].isFirstTeamSolve

\* the snapshot without the submission at position i of its array
WithoutSubmission(data, i) ==
    [data EXCEPT !.submissions =
        SubSeq(data.submissions, 1, i - 1)
            \o SubSeq(data.submissions, i + 1, Len(data.submissions))]

\* an accepted submission whose team or problem is not in the snapshot
Dangling(data, submission) ==
    /\ isAccepted(judgementsBySubmission(data.judgements), submission)
    /\ \/ \A t \in DOMAIN data.teams : data.teams[t].id # submission.team_id
       \/ \A q \in DOMAIN data.problems : data.problems[q].id # submission.problem_id

\* C10: a dangling accepted submission yields no record and leaves the rest of
\* the pass as it is without that submission.
C10_DanglingSkipped ==
    Fresh =>
        \A i \in DOMAIN contestData.submissions :
            Dangling(contestData, contestData.submissions[i]) =>
                /\ \A k \in DOMAIN deliveries :
                      deliveries[k].submissionId # contestData.submissions[i].id
                /\ processDeliveries(WithoutSubmission(contestData, i), hookDelivered)
                      = deliveries

\* a dangling submission sorts first, a valid one behind it takes the flags
C10_Witness ==
    /\ Fresh
    /\ contestData.submissions # <<>>
    /\ LET first == sortedSubmissions(contestData.submissions)[1]
       IN  /\ Dangling(contestData, first)
           /\ deliveries # <<>>
           /\ deliveries[1].isFirstACInContest
           /\ deliveries[1].isFirstSolve
           /\ deliveries[1].problemId = first.problem_id

----------------------------------------------------------------------------
(* Properties of the Index page *)

\* positions in a list of records of those of a marked pair
OfPair(records, marked) ==
    {i \in DOMAIN records :
        /\ records[i].teamId = marked.teamId
        /\ records[i].problemId = marked.problemId}

AllDelivered(records, marked) ==
    \A i \in OfPair(records, marked) : records[i].status = "delivered"

\* the newest event, as the page's derivation effect reads it
NewestSnapshot == events[1].data.data

\* every derivation over the newest snapshot and the page's delivered set, by
\* the hook and by the page, gives the records of a marked pair as delivered
C6_LaterDerivations ==
    \A marked \in markedPairs :
        contestDataTruthy(events) =>
            /\ AllDelivered(processDeliveries(NewestSnapshot, deliveredBalloons), marked)
            /\ hasCollections(NewestSnapshot) =>
                  AllDelivered(derivedList(NewestSnapshot, deliveredBalloons), marked)

\* once the effects of a render have run, no record of a marked pair is pending
\* in the page's lists
C6_NeverPendingAgain ==
    \A marked \in markedPairs :
        ~effects =>
            /\ AllDelivered(allDeliveries, marked)
            /\ OfPair(pendingDeliveries, marked) = {}

\* C6: once markAsDelivered has marked a pending record, every later derivation
\* over the page's delivered set gives the records of its pair the status
\* "delivered", and in no later state of the store is the pair pending again,
\* whatever snapshots arrive.
C6_MarkedStaysDelivered == C6_LaterDerivations /\ C6_NeverPendingAgain

\* the snapshot the newest event carries; null when it carries none
SnapshotOf(event) ==
    IF "data" \in DOMAIN event.data THEN event.data.data ELSE Null

\* the hook answers a null snapshot, or one without a collection, with the
\* empty list
C11_HookEmptyOnMalformed ==
    (memo = "fresh" /\ ~hasCollections(contestData)) => deliveries = <<>>

\* C11: when the snapshot is absent or lacks one of its collections, the
\* derivation yields the empty list and raises no error: neither the hook nor
\* the derivation effect of the Index page.
C11_MalformedYieldsEmpty ==
    /\ C11_HookEmptyOnMalformed
    /\ (events # <<>> /\ ~hasCollections(SnapshotOf(events[1]))) =>
          processDeliveries(SnapshotOf(events[1]), deliveredBalloons) = <<>>
    /\ pageError = "none"

\* positions in a list of the records with a delivery id
WithId(records, deliveryId) == {i \in DOMAIN records : records[i].id = deliveryId}

\* C12: once markAsDelivered has been fully applied, the key of the marked
\* record is in the delivered set and in storage, and the record is in the list
\* with status "delivered" and deliveredAt the wall-clock time of the call.
C12_MarkedAtWallClock ==
    (~effects /\ pageError = "none") =>
        \A deliveryId \in justMarked :
            /\ WithId(allDeliveries, deliveryId) # {}
            /\ \A i \in WithId(allDeliveries, deliveryId) :
                  /\ RecordKey(allDeliveries[i]) \in deliveredBalloons
                  /\ RecordKey(allDeliveries[i]) \in localStorage
                  /\ allDeliveries[i].status = "delivered"
                  /\ allDeliveries[i].deliveredAt = Now

\* what markAsDelivered does hold: key delivered and persisted, record delivered
C12_MarkedDelivered ==
    (~effects /\ pageError = "none") =>
        \A deliveryId \in justMarked :
            /\ WithId(allDeliveries, deliveryId) # {}
            /\ \A i \in WithId(allDeliveries, deliveryId) :
                  /\ RecordKey(allDeliveries[i]) \in deliveredBalloons
                  /\ RecordKey(allDeliveries[i]) \in localStorage
                  /\ allDeliveries[i].status = "delivered"

\* the state of the page and of the provider, without the history variables
storeVars == <<events, lastContestDataRef, deliveredBalloons, allDeliveries,
               pendingDeliveries, recentDeliveries, localStorage, effects,
               pageError, printRequests>>

\* C13: markAsDelivered with an id that no record of the list has changes
\* nothing: list, partition, delivered set, storage and print requests stay as
\* they are, no render is caused and no error is raised.
C13_UnknownIdNoOp ==
    [][\A deliveryId \in DeliveryIds :
          (/\ markAsDelivered(deliveryId)
           /\ WithId(allDeliveries, deliveryId) = {}) => UNCHANGED storeVars]_vars

\* the last step was a call with an id of no record, on a page that has
\* records, a delivered key and a pending record
C13_Witness ==
    /\ missed
    /\ allDeliveries # <<>>
    /\ deliveredBalloons # {}
    /\ pendingDeliveries # <<>>

\* the position in the input list of a record of a partition list
InputPosition(record) ==
    CHOOSE k \in DOMAIN allDeliveries : allDeliveries[k] = record

\* the records of a list are records of the input, in the input's order
KeepsInputOrder(list) ==
    /\ \A i \in DOMAIN list : \E k \in DOMAIN allDeliveries : allDeliveries[k] = list[i]
    /\ \A i, k \in DOMAIN list : i < k => InputPosition(list[i]) < InputPosition(list[k])

\* C14: after the partition effect, pending holds exactly the input records
\* with status pending or assigned, recent holds only records with status
\* delivered or confirmed and at most 10 of them, no record is in both, and
\* both keep the order of the input.
C14_Partition ==
    ~effects =>
        /\ \A i \in DOMAIN pendingDeliveries :
              pendingDeliveries[i].status \in {"pending", "assigned"}
        /\ \A k \in DOMAIN allDeliveries :
              allDeliveries[k].status \in {"pending", "assigned"} =>
                 Cardinality({i \in DOMAIN pendingDeliveries :
                                 pendingDeliveries[i] = allDeliveries[k]}) = 1
        /\ \A i \in DOMAIN recentDeliveries :
              recentDeliveries[i].status \in {"delivered", "confirmed"}
        /\ Len(recentDeliveries) <= RecentLimit
        /\ \A i \in DOMAIN pendingDeliveries : \A k \in DOMAIN recentDeliveries :
              pendingDeliveries[i].id # recentDeliveries[k].id
        /\ KeepsInputOrder(pendingDeliveries)
        /\ KeepsInputOrder(recentDeliveries)

\* all four statuses in the input, more than 10 delivered or confirmed
C14_Witness ==
    /\ ~effects
    /\ {allDeliveries[k].status : k \in DOMAIN allDeliveries} = Statuses
    /\ Len(allDeliveries) = MaxRecords
    /\ Len(pendingDeliveries) >= 2
    /\ Len(recentDeliveries) >= 2

\* the delivered or confirmed records of the input, in input order
DeliveredOf(records) ==
    SelectSeq(records, LAMBDA d : d.status \in {"delivered", "confirmed"})

\* C15: when more than 10 records are delivered or confirmed, recent holds the
\* last 10 of them in input order, so the record of the latest delivered
\* submission is in recent.
C15_RecentAreLatest ==
    (~effects /\ Len(DeliveredOf(allDeliveries)) > RecentLimit) =>
        LET kept == DeliveredOf(allDeliveries)
        IN  /\ recentDeliveries = SubSeq(kept, Len(kept) - RecentLimit + 1, Len(kept))
            /\ \E i \in DOMAIN recentDeliveries : recentDeliveries[i] = kept[Len(kept)]

\* what the partition effect does with more than 10: recent holds the first 10
C15_RecentAreEarliest ==
    (~effects /\ Len(DeliveredOf(allDeliveries)) > RecentLimit) =>
        recentDeliveries = SubSeq(DeliveredOf(allDeliveries), 1, RecentLimit)

\* C16: a step changes the delivered set only if it is a markAsDelivered step
\* of a record of the list, and then it adds that record's key and nothing
\* else: the arrival of a snapshot or of an error event, the effects and a
\* restart leave it as it is, and it never loses a key.
C16_DeliveredSetFrame ==
    [][deliveredBalloons' # deliveredBalloons =>
          \E deliveryId \in DeliveryIds :
              /\ markAsDelivered(deliveryId)
              /\ WithId(allDeliveries, deliveryId) # {}
              /\ deliveredBalloons' = deliveredBalloons \cup
                    {RecordKey(allDeliveries[i]) : i \in WithId(allDeliveries, deliveryId)}]_vars

\* two keys are in the set, a snapshot and a failed poll have arrived since
C16_Witness ==
    /\ ~effects
    /\ Cardinality(deliveredBalloons) = 2
    /\ Len(events) = 2
    /\ events[1].type = "error"
    /\ justMarked = {}

\* C17: after a restart whose startup effects have run, the in-memory set and
\* the stored set are the set stored before the restart, and every record of a
\* pair of that set is derived as delivered.
C17_SurvivesRestart ==
    (~effects /\ restartedFrom # <<>>) =>
        /\ deliveredBalloons = restartedFrom[1]
        /\ localStorage = restartedFrom[1]
        /\ \A i \in DOMAIN allDeliveries :
              RecordKey(allDeliveries[i]) \in restartedFrom[1] =>
                 allDeliveries[i].status = "delivered"

\* the page restarted from a non-empty set and derived a delivered record after it
C17_Witness ==
    /\ ~effects
    /\ restartedFrom # <<>>
    /\ restartedFrom[1] # {}
    /\ \E i \in DOMAIN allDeliveries :
          /\ RecordKey(allDeliveries[i]) \in restartedFrom[1]
          /\ allDeliveries[i].status = "delivered"

----------------------------------------------------------------------------
(* C18: the reconnect budget *)

\* C18: with auto-reconnect enabled and every fetch failing, reconnect timers
\* make at most maxReconnectAttempts connect() calls after a connect() of the
\* page.
C18_AtMostFiveReconnects ==
    ~succeeded => autoConnects <= maxReconnectAttempts

----------------------------------------------------------------------------
(* C19: the delay of the reconnect timers *)

\* the delay the n-th reconnect attempt is said to wait, in milliseconds:
\* 1000, 2000, 4000, ..., at most 30000
backoffFromOneSecond(n) ==
    IF 1000 * Pow2(n - 1) < 30000 THEN 1000 * Pow2(n - 1) ELSE 30000

\* C19: on consecutive fetch failures the reconnect timer of the n-th
\* automatic reconnect attempt waits 1 s for n = 1 and twice as long for each
\* further attempt, and never more than 30 s.
C19_DelayDoublesFromOneSecond ==
    ~succeeded =>
        \A t \in DOMAIN timers :
            t.kind = "timeout" => t.delay = backoffFromOneSecond(t.nth)

\* no reconnect timer waits more than 30 s, and none less than 2 s
C19_DelayWithinCap ==
    \A t \in DOMAIN timers :
        t.kind = "timeout" => (2000 <= t.delay /\ t.delay <= 30000)

----------------------------------------------------------------------------
(* C20: timers after disconnect *)

\* C20: once disconnect() has run, at a call of the page or at unmount, and
\* until the next connect(), no polling interval and no reconnect timer is to
\* fire.
C20_NoTimerAfterDisconnect ==
    stopped => timers = EmptyBag

----------------------------------------------------------------------------
(* C21: a failed poll and the list of the page *)

\* C21: once the event of a failed poll has been rendered, the page is still
\* up and its list of deliveries, with the pending and the recent part, is what
\* it was when the poll failed.
C21_FailedPollKeepsList ==
    (beforeError # <<>> /\ ~effects) =>
        /\ pageError = "none"
        /\ allDeliveries = beforeError[1].all
        /\ pendingDeliveries = beforeError[1].pending
        /\ recentDeliveries = beforeError[1].recent

----------------------------------------------------------------------------
(* C22: a failed print request *)

\* what markAsDelivered has changed, and the error state of the page
markedStore == <<deliveredBalloons, allDeliveries, pendingDeliveries, recentDeliveries,
                 localStorage, pageError>>

\* the step in which a print request fails changes neither the list nor the
\* delivered set, and raises no error in the page
C22_PrintFailureFrame ==
    [][\A request \in printing : printFails(request) => UNCHANGED markedStore]_vars

\* the key of a record whose print request failed is in the delivered set
C22_FailedPrintKeyKept ==
    \A request \in printFailed : request.key \in deliveredBalloons

\* C22: a print request that fails after markAsDelivered undoes nothing: the
\* step of the failure leaves the list and the delivered set as they are and
\* raises no error, and the key of the record stays in the delivered set.
C22_PrintFailureKeepsMutation ==
    []C22_FailedPrintKeyKept /\ C22_PrintFailureFrame

\* a print request has failed while its record is shown as delivered
C22_Witness ==
    /\ pageError = "none"
    /\ \E request \in printFailed :
          /\ request.key \in deliveredBalloons
          /\ \E i \in DOMAIN allDeliveries :
                /\ allDeliveries[i].id = request.id
                /\ markedKey(allDeliveries[i]) = request.key
                /\ allDeliveries[i].status = "delivered"

----------------------------------------------------------------------------
(* C23: first solves from one poll to the next *)

\* the snapshot without the judgement at position j of its array
WithoutJudgement(data, j) ==
    [data EXCEPT !.judgements =
        SubSeq(data.judgements, 1, j - 1)
            \o SubSeq(data.judgements, j + 1, Len(data.judgements))]

\* the snapshot without the submission at position i and without the
\* judgements of that submission
WithoutJudgedSubmission(data, i) ==
    [WithoutSubmission(data, i) EXCEPT !.judgements =
        SelectSeq(data.judgements,
                  LAMBDA j : j.submission_id # data.submissions[i].id)]

\* the snapshots an earlier poll can have returned: the snapshot lacks one
\* judgement, or one submission with its judgements; nothing else differs
Earlier(data) ==
    {WithoutJudgement(data, j) : j \in DOMAIN data.judgements}
        \cup {WithoutJudgedSubmission(data, i) : i \in DOMAIN data.submissions}

\* C23: a pair whose record is a first solve in the derivation of an earlier
\* snapshot has a first-solve record in the derivation of the snapshot that
\* extends it.
C23_FirstSolveMonotonic ==
    Fresh =>
        \A earlier \in Earlier(contestData) :
            LET before == processDeliveries(earlier, hookDelivered)
            IN  \A b \in DOMAIN before :
                    before[b].isFirstSolve =>
                        \E k \in DOMAIN deliveries :
                            /\ deliveries[k].teamId = before[b].teamId
                            /\ deliveries[k].problemId = before[b].problemId
                            /\ deliveries[k].isFirstSolve

----------------------------------------------------------------------------
(* C24: the statuses the derivations and the mutation produce *)

\* every record of the list has one of the two statuses
ProducedStatuses(records) ==
    \A i \in DOMAIN records : records[i].status \in {"pending", "delivered"}

\* C24: the records of the page's list, derived by the page or left by
\* markAsDelivered, and the records the hook derives from the newest snapshot,
\* have status "pending" or "delivered", never "assigned" or "confirmed".
C24_OnlyPendingOrDelivered ==
    /\ ProducedStatuses(allDeliveries)
    /\ contestDataTruthy(events) =>
          ProducedStatuses(processDeliveries(NewestSnapshot, deliveredBalloons))

\* markAsDelivered has just marked a record, and the list holds a delivered and
\* a pending record
C24_Witness ==
    /\ justMarked # {}
    /\ \E i, j \in DOMAIN allDeliveries :
          /\ allDeliveries[i].id \in justMarked
          /\ allDeliveries[i].status = "delivered"
          /\ allDeliveries[j].status = "pending"

----------------------------------------------------------------------------
(* C25: polling after connect *)

\* connect() has run, disconnect() has not run since at a call of the page or
\* at unmount, and no first pollApi of a connect() still awaits its fetch
FirstPollCompleted ==
    /\ fetchCount > 0
    /\ ~stopped
    /\ \A fetch \in DOMAIN fetches : ~fetch.first

\* C25: after a connect() whose first poll has completed, and until
\* disconnect() is called, a polling interval of pollingInterval milliseconds
\* is set, whatever autoReconnect is.
C25_PollsUntilDisconnect ==
    FirstPollCompleted =>
        \E timer \in DOMAIN timers :
            timer.kind = "interval" /\ timer.delay = pollingInterval

----------------------------------------------------------------------------
(* C26: several judgements of one submission *)

\* the snapshot with one more judgement of the submission at position i, put
\* at position at of the judgements array
WithJudgement(data, i, verdict, at) ==
    [data EXCEPT !.judgements =
        SubSeq(data.judgements, 1, at - 1)
            \o << [id                |-> <<"r">> \o data.submissions[i].id,
                   submission_id     |-> data.submissions[i].id,
                   judgement_type_id |-> verdict] >>
            \o SubSeq(data.judgements, at, Len(data.judgements))]

\* the positions of the judgements of a submission in the judgements array
JudgementsAt(data, submission) ==
    {j \in DOMAIN data.judgements :
        data.judgements[j].submission_id = submission.id}

\* the judgement of the submission that appears last in the array is "AC"
LastJudgementAccepts(data, submission) ==
    /\ JudgementsAt(data, submission) # {}
    /\ LET last == CHOOSE j \in JudgementsAt(data, submission) :
                       \A k \in JudgementsAt(data, submission) : k <= j
       IN  data.judgements[last].judgement_type_id = "AC"

\* the snapshots with a second judgement of one judged submission, at any
\* position of the array
Rejudged(data) ==
    {[at |-> at, i |-> i,
      data |-> WithJudgement(data, i, verdict, at)] :
        at \in 1..(Len(data.judgements) + 1),
        i \in {k \in DOMAIN data.submissions :
                 JudgementsAt(data, data.submissions[k]) # {}},
        verdict \in Verdicts \ {"none"}}

\* C26: when a submission has several judgements, the hook takes it as
\* accepted exactly when the judgement that appears last in the judgements
\* array is "AC"; a judgement put before the last one of its submission
\* changes nothing in the derived list.
C26_LastJudgementDecides ==
    Fresh =>
        \A r \in Rejudged(contestData) :
            LET submission == contestData.submissions[r.i]
            IN  /\ isAccepted(judgementsBySubmission(r.data.judgements), submission)
                      <=> LastJudgementAccepts(r.data, submission)
                /\ (\E j \in JudgementsAt(r.data, submission) : j > r.at)
                      => processDeliveries(r.data, hookDelivered) = deliveries

\* a submission judged "WA" and then "AC" has a record, and an accepted one
\* keeps its record with an earlier "WA"
C26_Witness ==
    /\ Fresh
    /\ deliveries # <<>>
    /\ \E r \in Rejudged(contestData) :
          LET submission == contestData.submissions[r.i]
              judged == {r.data.judgements[j].judgement_type_id :
                            j \in JudgementsAt(r.data, submission)}
          IN  /\ judged = {"AC", "WA"}
              /\ LastJudgementAccepts(r.data, submission)
              /\ \E k \in DOMAIN processDeliveries(r.data, hookDelivered) :
                    processDeliveries(r.data, hookDelivered)[k].submissionId
                        = submission.id

----------------------------------------------------------------------------
(* C27: a successful poll after a failed one *)

\* the newest event is the error event of a failed poll, and an older event
\* holds the response the next successful poll returns again
ErrorAfterSnapshot(response) ==
    /\ events # <<>>
    /\ events[1].type = "error"
    /\ \E i \in DOMAIN events :
          /\ events[i].type = "contest"
          /\ events[i].data = response
          /\ \A k \in 1..(i - 1) : events[k].type = "error"

\* C27: when the newest event is an error event and a poll then succeeds with
\* the response of the last successful poll, the newest event after that poll
\* is a contest event holding that response, not the error event.
C27_SnapshotAgainAfterError ==
    [][(/\ ErrorAfterSnapshot(Response(FullSnapshot))
        /\ \E fetch \in DOMAIN fetches : fetchSucceeds(fetch))
          => /\ events'[1].type = "contest"
             /\ events'[1].data = Response(FullSnapshot)
             /\ Len(events') = Len(events) + 1]_vars

\* a snapshot, then an error event, then the same snapshot again
C27_Witness ==
    /\ Len(events) >= 3
    /\ events[1].type = "contest"
    /\ events[2].type = "error"
    /\ events[3].type = "contest"
    /\ events[1].data = events[3].data
    /\ connectionStatus = "connected"

----------------------------------------------------------------------------
(* C28: the page's derivation and the hook's *)

\* what the two derivations are compared on: the pair of a record, its
\* submission, its status and its three flags
Compared(records) ==
    {[teamId             |-> records[i].teamId,
      problemId          |-> records[i].problemId,
      submissionId       |-> records[i].submissionId,
      status             |-> records[i].status,
      isFirstSolve       |-> records[i].isFirstSolve,
      isFirstTeamSolve   |-> records[i].isFirstTeamSolve,
      isFirstACInContest |-> records[i].isFirstACInContest] :
        i \in DOMAIN records}

\* C28: for a snapshot and a delivered set, the derivation effect of the Index
\* page and processDeliveries of the hook give the same records: the same
\* pairs with the same submission, status and first-solve flags.
C28_PageAndHookAgree ==
    Fresh =>
        Compared(derivedList(contestData, hookDelivered)) = Compared(deliveries)

----------------------------------------------------------------------------
(* C29: the timers the two refs hold *)

\* the live timers of one kind
LiveTimers(kind) == {timer \in DOMAIN timers : timer.kind = kind}

\* at most one timer of the kind is live, and it is the one whose id the ref
\* holds
OnlyTheHeldTimer(kind, ref) ==
    /\ copiesOf(timers, LiveTimers(kind)) <= 1
    /\ \A timer \in LiveTimers(kind) : timer.held /\ ref = "id"

\* C29: at every moment at most one polling interval and at most one
\* reconnect timer are live, each held in pollingIntervalRef or
\* reconnectTimeoutRef, so that one disconnect() clears every timer.
C29_OneHeldTimerPerKind ==
    /\ OnlyTheHeldTimer("interval", pollingIntervalRef)
    /\ OnlyTheHeldTimer("timeout", reconnectTimeoutRef)

----------------------------------------------------------------------------
(* C30: what the change detection of addEvent discards *)

\* the positions of the contest events
ContestEvents == {i \in DOMAIN events : events[i].type = "contest"}

\* the snapshot of the newest contest event: the last one addEvent accepted
LastAccepted ==
    events[CHOOSE i \in ContestEvents : \A k \in ContestEvents : i <= k].data.data

\* the two snapshots derive to different delivery lists
DerivesDifferently(a, b) ==
    processDeliveries(a, deliveredBalloons) # processDeliveries(b, deliveredBalloons)

\* C30: a contest snapshot whose derived delivery list differs from that of
\* the last accepted snapshot is not discarded by addEvent: it becomes the
\* newest event.
C30_DifferingSnapshotKept ==
    [][\A snapshot \in PolledSnapshots :
          (/\ addEvent(snapshot)
           /\ ContestEvents # {}
           /\ DerivesDifferently(snapshot, LastAccepted))
             => events' = <<[type |-> "contest", data |-> Response(snapshot)]>>
                              \o events]_vars

\* two contest events in a row whose snapshots derive to different lists
C30_Witness ==
    /\ Len(events) >= 2
    /\ events[1].type = "contest"
    /\ events[2].type = "contest"
    /\ DerivesDifferently(events[1].data.data, events[2].data.data)
    /\ Len(events[1].data.data.submissions) = Len(events[2].data.data.submissions)

====
